---- MODULE Spec2Model ----
(***************************************************************************)
(* Hensel codes, the rational <-> Hensel code embedding and the five-prime *)
(* encryption scheme of pfhe (src/src/hensel_code.rs,                      *)
(* src/src/crypto_parameters.rs, src/src/lib.rs).                          *)
(*                                                                         *)
(* A HenselCode is the record [modulus, res] with 0 <= res < modulus; a    *)
(* Rational is the record [num, denom].  The operations are pure, so the   *)
(* state holds the key, the last operation, its arguments and its result.  *)
(***************************************************************************)
EXTENDS Integers, Sequences, FiniteSets, TLC

VARIABLES
    key,    \* the CryptographicParameters [p1, p2, p3, p4, p5]; <<>> when none is built
    op,     \* the operation called last, "init" before any call
    args,   \* its arguments, the values random_mod returned included
    ret,    \* its result: a HenselCode, a Rational, a number or Panic
    plain   \* the plaintext m of the ciphertext encrypt returned

vars == <<key, op, args, ret, plain>>

(***************************************************************************)
(* Bounds of the model.                                                    *)
(***************************************************************************)
\* moduli of the Hensel codes given to +, * and chinese_remainder
MaxMod == 15
\* moduli of the rational embedding and of the round trip
MaxEmbedMod == 41
\* numerators and denominators of the rationals that are embedded
MaxNum == 8
MaxDenom == 8
\* numerators and denominators of the plaintexts
MaxMsgNum == 3
MaxMsgDenom == 3
\* inputs n1, n2, n3 of the three-prime CRT
MaxResidue == 4
\* random_mod(m) is drawn from the MaxRand + 1 lowest and highest values of [0, m)
MaxRand == 1

\* the primes the keys are made of
KeyPrimes == {3, 5, 7, 19, 23}

(***************************************************************************)
(* Arithmetic helpers.                                                     *)
(***************************************************************************)
Abs(x) == IF x < 0 THEN -x ELSE x

RECURSIVE GCD(_, _)
\* BigInt::gcd
GCD(a, b) == IF b = 0 THEN Abs(a) ELSE GCD(b, a % Abs(b))

IsPrime(p) == p >= 2 /\ \A d \in 2..(p - 1) : p % d # 0

OddModuli(max) == {g \in 3..max : g % 2 = 1}

RECURSIVE EuclidInverse(_, _, _, _, _)
\* extended Euclid on (g, x): the coefficient t with t * x = 1 (mod g)
EuclidInverse(r0, r1, t0, t1, g) ==
    IF r1 = 0 THEN t0 % g
    ELSE EuclidInverse(r1, r0 % r1, t1, t0 - (r0 \div r1) * t1, g)

\* DynResidue::invert().0 of an invertible residue x mod g
ModInverse(x, g) == EuclidInverse(g, x % g, 0, 1, g)

\* DynResidue::invert().0: the inverse when there is one; the value returned
\* along with a false flag is unspecified, any residue
InvertOutcomes(x, g) ==
    IF GCD(x % g, g) = 1 THEN {ModInverse(x, g)} ELSE 0..(g - 1)

(***************************************************************************)
(* hensel_code.rs                                                          *)
(***************************************************************************)
HenselCodes(max) == {[modulus |-> g, res |-> n] : g \in OddModuli(max), n \in 0..(max - 1)}

Codes(max) == {hc \in HenselCodes(max) : hc.res < hc.modulus}

Panic == [panic |-> TRUE]

IsPanic(r) == "panic" \in DOMAIN r

generate_zero(g) == [modulus |-> g, res |-> 0]

new_hensel_code(g, n) == [modulus |-> g, res |-> n % g]

\* HenselCode::invert
invert(hc) == {[modulus |-> hc.modulus, res |-> i] : i \in InvertOutcomes(hc.res, hc.modulus)}

AddNoReduce(a, b) ==
    IF a.modulus # b.modulus THEN Panic
    ELSE [modulus |-> a.modulus, res |-> a.res + b.res]

\* impl Add for &HenselCode
Add(a, b) ==
    IF a.modulus # b.modulus THEN Panic
    ELSE [modulus |-> a.modulus, res |-> (a.res + b.res) % a.modulus]

\* impl Mul for &HenselCode
Mul(a, b) ==
    IF a.modulus # b.modulus THEN Panic
    ELSE [modulus |-> a.modulus, res |-> (a.res * b.res) % a.modulus]

CrtSwapped(hc1, hc2, i1, i2) ==
    LET g12 == hc1.modulus * hc2.modulus
    IN  [modulus |-> g12,
         res |-> (((((hc1.modulus * i1) % g12) * hc1.res) % g12)
                  + ((((hc2.modulus * i2) % g12) * hc2.res) % g12)) % g12]

\* chinese_remainder, lines 119-135: res_g1 * i1 * res_n2 + res_g2 * i2 * res_n1
\* in Z/(g1*g2), given i1 = g1^-1 (mod g2) and i2 = g2^-1 (mod g1)
CrtCombine(hc1, hc2, i1, i2) ==
    LET g12 == hc1.modulus * hc2.modulus
    IN  [modulus |-> g12,
         res |-> (((((hc1.modulus * i1) % g12) * hc2.res) % g12)
                  + ((((hc2.modulus * i2) % g12) * hc1.res) % g12)) % g12]

\* every result chinese_remainder can return
chinese_remainder_outcomes(hc1, hc2) ==
    {CrtCombine(hc1, hc2, i1, i2) :
        i1 \in InvertOutcomes(hc1.modulus, hc2.modulus),
        i2 \in InvertOutcomes(hc2.modulus, hc1.modulus)}

\* chinese_remainder on coprime moduli
chinese_remainder(hc1, hc2) ==
    CrtCombine(hc1, hc2, ModInverse(hc1.modulus, hc2.modulus),
                         ModInverse(hc2.modulus, hc1.modulus))

FromNoGcdCheck(g, r) ==
    [modulus |-> g, res |-> (ModInverse(r.denom, g) * (r.num % g)) % g]

FromNoInvert(g, r) ==
    IF GCD(g, r.denom) > 1 THEN generate_zero(g)
    ELSE [modulus |-> g, res |-> ((r.denom % g) * (r.num % g)) % g]

\* impl From<(&BigInt, &Rational)> for HenselCode
HenselCodeFrom(g, r) ==
    IF GCD(g, r.denom) > 1 THEN generate_zero(g)
    ELSE [modulus |-> g, res |-> (ModInverse(r.denom, g) * (r.num % g)) % g]

(***************************************************************************)
(* Rational: arithmetic in Q and rational reconstruction.                  *)
(***************************************************************************)
Rationals(maxNum, maxDenom) == {[num |-> a, denom |-> b] : a \in 0..maxNum, b \in 1..maxDenom}

\* equality as elements of Q
EqQ(r, s) == r.num * s.denom = s.num * r.denom

RationalMul(r, s) == [num |-> r.num * s.num, denom |-> r.denom * s.denom]

RationalAdd(r, s) == [num |-> r.num * s.denom + s.num * r.denom, denom |-> r.denom * s.denom]

RECURSIVE Reconstruct(_, _, _, _, _)
\* extended Euclid on (g, n) up to the first remainder r1 with r1^2 < g/2
Reconstruct(r0, r1, t0, t1, g) ==
    IF 2 * r1 * r1 < g
    THEN IF t1 < 0 THEN [num |-> -r1, denom |-> -t1] ELSE [num |-> r1, denom |-> t1]
    ELSE Reconstruct(r1, r0 % r1, t1, t0 - (r0 \div r1) * t1, g)

\* impl From<&HenselCode> for Rational
RationalFrom(hc) == Reconstruct(hc.modulus, hc.res, 0, 1, hc.modulus)

(***************************************************************************)
(* Operations on Hensel codes and rationals.                               *)
(***************************************************************************)
NoKey == <<>>

NoValue == [none |-> TRUE]

InitHensel ==
    /\ key = NoKey
    /\ op = "init"
    /\ args = NoValue
    /\ ret = NoValue
    /\ plain = NoValue

DoAdd ==
    /\ op = "init"
    /\ \E a \in Codes(MaxMod), b \in Codes(MaxMod) :
        /\ op' = "add"
        /\ args' = [a |-> a, b |-> b]
        /\ ret' = Add(a, b)
        /\ UNCHANGED <<key, plain>>

DoMul ==
    /\ op = "init"
    /\ \E a \in Codes(MaxMod), b \in Codes(MaxMod) :
        /\ op' = "mul"
        /\ args' = [a |-> a, b |-> b]
        /\ ret' = Mul(a, b)
        /\ UNCHANGED <<key, plain>>

DoChineseRemainder ==
    /\ op = "init"
    /\ \E a \in Codes(MaxMod), b \in Codes(MaxMod) :
        \E r \in chinese_remainder_outcomes(a, b) :
            /\ op' = "crt"
            /\ args' = [a |-> a, b |-> b]
            /\ ret' = r
            /\ UNCHANGED <<key, plain>>

\* tests::translates_rational_to_hensel_code, simple_tester
DoFromRational ==
    /\ op = "init"
    /\ \E g \in OddModuli(MaxEmbedMod), r \in Rationals(MaxNum, MaxDenom) :
        \E id_hc \in invert(new_hensel_code(g, r.denom)) :
            /\ op' = "from"
            /\ args' = [g |-> g, r |-> r]
            /\ ret' = [hc |-> HenselCodeFrom(g, r),
                       prod |-> Mul(id_hc, new_hensel_code(g, r.num))]
            /\ UNCHANGED <<key, plain>>

\* tests::translates_rational_to_hc_and_back, simple_tester
DoRoundTrip ==
    /\ op = "init"
    /\ \E g \in OddModuli(MaxEmbedMod), r \in Rationals(MaxNum, MaxDenom) :
        /\ op' = "roundtrip"
        /\ args' = [g |-> g, r |-> r]
        /\ ret' = [hc |-> HenselCodeFrom(g, r),
                   new_r |-> RationalFrom(HenselCodeFrom(g, r))]
        /\ UNCHANGED <<key, plain>>

NextHensel == DoAdd \/ DoMul \/ DoChineseRemainder \/ DoFromRational \/ DoRoundTrip

SpecHensel == InitHensel /\ [][NextHensel]_vars

(***************************************************************************)
(* crypto_parameters.rs                                                    *)
(***************************************************************************)
\* CryptographicParameters::new on five distinct odd primes
Keys ==
    {k \in [p1 : KeyPrimes, p2 : KeyPrimes, p3 : KeyPrimes, p4 : KeyPrimes, p5 : KeyPrimes] :
        Cardinality({k.p1, k.p2, k.p3, k.p4, k.p5}) = 5}

\* the values of BigInt::random_mod(m) the model draws
RandomMod(m) == {x \in 0..(m - 1) : x <= MaxRand \/ x >= m - 1 - MaxRand}

\* the ciphertext modulus g of encrypt, lines 58-59
Modulus(k) == k.p1 * k.p2 * k.p3 * k.p5 * k.p4

\* CryptographicParameters::public_key
public_key(k) == k.p2 * k.p3 * k.p4 * k.p5

CrtThreeSwapped(k, n1, n2, n3) ==
    chinese_remainder(
        chinese_remainder(new_hensel_code(k.p1, n1), new_hensel_code(k.p2, n3)),
        new_hensel_code(k.p3, n2))

\* CryptographicParameters::chinese_remainder
params_chinese_remainder(k, n1, n2, n3) ==
    chinese_remainder(
        chinese_remainder(new_hensel_code(k.p1, n1), new_hensel_code(k.p2, n2)),
        new_hensel_code(k.p3, n3))

BlindWrongPrime(k, delta) == new_hensel_code(Modulus(k), delta * k.p5)

\* encrypt, line 65: dp4
dp4(k, delta) == new_hensel_code(Modulus(k), delta * k.p4)

\* encrypt, lines 72-78: hc_noise_1
noise_quotient(k, hc_noise) ==
    HenselCodeFrom(k.p1 * k.p2 * k.p3, [num |-> hc_noise.res, denom |-> k.p1])

\* CryptographicParameters::encrypt with the values random_mod returned; the
\* result carries the intermediate values along with the ciphertext c
encrypt(k, m, s1, s2, s3, delta) ==
    LET hc_noise == params_chinese_remainder(k, 0, s2, s3)
        hc_noise_1 == noise_quotient(k, hc_noise)
        r_noise == RationalMul([num |-> k.p1, denom |-> 1], RationalFrom(hc_noise_1))
        rs1 == [num |-> s1, denom |-> 1]
        rational_term == RationalAdd(RationalMul(rs1, r_noise), m)
    IN  [hc_noise |-> hc_noise,
         hc_noise_1 |-> hc_noise_1,
         rational_term |-> rational_term,
         c |-> Add(HenselCodeFrom(Modulus(k), rational_term), dp4(k, delta))]

DecryptWrongPrime(k, hc) ==
    RationalFrom(HenselCodeFrom(k.p1, RationalFrom(new_hensel_code(k.p5, hc.res))))

\* CryptographicParameters::decrypt
decrypt(k, hc) ==
    RationalFrom(HenselCodeFrom(k.p1, RationalFrom(new_hensel_code(k.p4, hc.res))))

Init ==
    /\ key \in Keys
    /\ op = "init"
    /\ args = NoValue
    /\ ret = NoValue
    /\ plain = NoValue

DoPublicKey ==
    /\ op = "init"
    /\ op' = "public_key"
    /\ args' = NoValue
    /\ ret' = public_key(key)
    /\ UNCHANGED <<key, plain>>

\* tests::chinese_remainder
DoParamsChineseRemainder ==
    /\ op = "init"
    /\ \E n1 \in 0..MaxResidue, n2 \in 0..MaxResidue, n3 \in 0..MaxResidue :
        /\ op' = "crt3"
        /\ args' = [n1 |-> n1, n2 |-> n2, n3 |-> n3]
        /\ ret' = params_chinese_remainder(key, n1, n2, n3)
        /\ UNCHANGED <<key, plain>>

DoEncrypt ==
    /\ op = "init"
    /\ \E m \in Rationals(MaxMsgNum, MaxMsgDenom) :
        \E s1 \in RandomMod(key.p1), s2 \in RandomMod(key.p2), s3 \in RandomMod(key.p3),
           delta \in RandomMod(key.p1 * key.p2 * key.p3 * key.p5) :
            /\ op' = "encrypt"
            /\ args' = [m |-> m, s1 |-> s1, s2 |-> s2, s3 |-> s3, delta |-> delta]
            /\ ret' = encrypt(key, m, s1, s2, s3, delta)
            /\ plain' = m
            /\ UNCHANGED key

\* decrypt applied to the ciphertext encrypt returned
DoDecrypt ==
    /\ op = "encrypt"
    /\ op' = "decrypt"
    /\ args' = [hc |-> ret.c]
    /\ ret' = decrypt(key, ret.c)
    /\ UNCHANGED <<key, plain>>

Next == DoPublicKey \/ DoParamsChineseRemainder \/ DoEncrypt \/ DoDecrypt

Spec == Init /\ [][Next]_vars

(***************************************************************************)
(* Properties.                                                             *)
(***************************************************************************)
\* num^2 < p/2 and denom^2 < p/2: the range of the reconstruction at modulus p
InRange(p, r) == 2 * r.num * r.num < p /\ 2 * r.denom * r.denom < p

\* x is the image of the rational r at modulus p: x = num * denom^-1 (mod p)
IsImage(x, r, p) == x \in 0..(p - 1) /\ (x * (r.denom % p)) % p = r.num % p

\* C1 as stated: for a plaintext m with gcd(p1*p4, m.denom) = 1 that is within
\* the reconstruction range at modulus p1, decrypt(encrypt(m)) equals m in Q,
\* whatever values encrypt drew.
C1_DecryptEncryptAsStated ==
    (op = "decrypt" /\ GCD(key.p1 * key.p4, plain.denom) = 1 /\ InRange(key.p1, plain))
        => EqQ(ret, plain)

\* C1 amended: for a plaintext m whose denominator is coprime to all five
\* primes and that is within the reconstruction range at modulus p4 and at
\* modulus p1, decrypt(encrypt(m)) equals m in Q, whatever values encrypt drew.
C1_DecryptEncrypt ==
    (op = "decrypt" /\ GCD(Modulus(key), plain.denom) = 1
        /\ InRange(key.p1, plain) /\ InRange(key.p4, plain))
        => EqQ(ret, plain)

C1_Witness ==
    /\ op = "decrypt"
    /\ GCD(Modulus(key), plain.denom) = 1
    /\ InRange(key.p1, plain) /\ InRange(key.p4, plain)
    /\ plain.denom > 1 /\ plain.num > 1 /\ GCD(plain.num, plain.denom) = 1
    /\ args.hc.res >= key.p4 * key.p1
    /\ ret = plain

\* C2: chinese_remainder of (g1, n1) and (g2, n2) with gcd(g1, g2) = 1 has
\* modulus g1*g2 and its residue is the only n in [0, g1*g2) with
\* n mod g1 = n1 and n mod g2 = n2.
C2_CrtUnique ==
    (op = "crt" /\ GCD(args.a.modulus, args.b.modulus) = 1)
        => /\ ret.modulus = args.a.modulus * args.b.modulus
           /\ \A n \in 0..(args.a.modulus * args.b.modulus - 1) :
                (n = ret.res) <=> (n % args.a.modulus = args.a.res /\ n % args.b.modulus = args.b.res)

C2_Witness ==
    /\ op = "crt"
    /\ GCD(args.a.modulus, args.b.modulus) = 1
    /\ args.a.res > 0 /\ args.b.res > 0 /\ args.a.res # args.b.res
    /\ ret.res > args.a.modulus /\ ret.res > args.b.modulus
    /\ ret.res % args.a.modulus = args.a.res /\ ret.res % args.b.modulus = args.b.res

\* C3: the three-prime CRT of n1, n2, n3 has modulus p1*p2*p3, its residue r
\* has r mod pi = ni mod pi for i = 1, 2, 3, and it is the result of the
\* two-code CRT of (p1, n1) and (p2, n2) combined with (p3, n3).
C3_ThreeCrt ==
    op = "crt3"
        => /\ ret.modulus = key.p1 * key.p2 * key.p3
           /\ ret.res \in 0..(ret.modulus - 1)
           /\ ret.res % key.p1 = args.n1 % key.p1
           /\ ret.res % key.p2 = args.n2 % key.p2
           /\ ret.res % key.p3 = args.n3 % key.p3
           /\ \E hc12 \in chinese_remainder_outcomes(new_hensel_code(key.p1, args.n1),
                                                     new_hensel_code(key.p2, args.n2)) :
                ret \in chinese_remainder_outcomes(hc12, new_hensel_code(key.p3, args.n3))

C3_Witness ==
    /\ op = "crt3"
    /\ args.n1 = 1 /\ args.n2 = 2 /\ args.n3 = 4
    /\ key.p2 = 3 /\ key.p3 = 7
    /\ ret.res > key.p1
    /\ ret.res % key.p1 = 1 /\ ret.res % 3 = 2 /\ ret.res % 7 = 4

\* C4: the embedding of num/denom at an odd modulus g has modulus g; when
\* gcd(g, denom) = 1 its residue is (num mod g) * (denom^-1 mod g) mod g, the
\* residue of new_hensel_code(g, denom).invert() * new_hensel_code(g, num);
\* when gcd(g, denom) > 1 it is zero(g); it is an error in neither case.
C4_Embedding ==
    op = "from"
        => /\ ~IsPanic(ret.hc)
           /\ ret.hc.modulus = args.g
           /\ GCD(args.g, args.r.denom) = 1
                => /\ IsImage(ret.hc.res, args.r, args.g)
                   /\ ret.hc = ret.prod
           /\ GCD(args.g, args.r.denom) > 1 => ret.hc.res = 0

C4_Witness ==
    /\ op = "from"
    /\ GCD(args.g, args.r.denom) = 1
    /\ args.r.denom > 1 /\ args.r.num > args.g
    /\ ret.hc.res > 1 /\ ret.hc.res # args.r.num % args.g
    /\ ret.hc = ret.prod

\* C5 as stated: for a prime g and num/denom with gcd(g, denom) = 1 and
\* |num| * |denom| < g/2, the embedding at g followed by the reconstruction
\* gives a rational equal to num/denom in Q.
C5_RoundTripAsStated ==
    (op = "roundtrip" /\ IsPrime(args.g) /\ GCD(args.g, args.r.denom) = 1
        /\ 2 * args.r.num * args.r.denom < args.g)
        => EqQ(ret.new_r, args.r)

\* C5 amended: for a prime g and num/denom with gcd(g, denom) = 1,
\* num^2 < g/2 and denom^2 < g/2, the embedding at g followed by the
\* reconstruction gives a rational equal to num/denom in Q.
C5_RoundTrip ==
    (op = "roundtrip" /\ IsPrime(args.g) /\ GCD(args.g, args.r.denom) = 1
        /\ InRange(args.g, args.r))
        => EqQ(ret.new_r, args.r)

C5_Witness ==
    /\ op = "roundtrip"
    /\ IsPrime(args.g) /\ GCD(args.g, args.r.denom) = 1 /\ InRange(args.g, args.r)
    /\ args.r.num = 2 /\ args.r.denom = 4
    /\ ret.hc.res > 4
    /\ ret.new_r = [num |-> 1, denom |-> 2]

\* C6: public_key returns p1*p2*p3*p4*p5, the modulus of the ciphertexts of
\* encrypt.
C6_PublicKeyIsModulus ==
    op = "public_key" => ret = key.p1 * key.p2 * key.p3 * key.p4 * key.p5

\* C7: for a plaintext num/denom with denom coprime to g, the ciphertext has
\* modulus g = p1*p2*p3*p4*p5 and its residue mod p4 is the image of the
\* plaintext at p4, whatever s1, s2, s3 and delta are.
C7_CiphertextModP4 ==
    (op = "encrypt" /\ GCD(Modulus(key), args.m.denom) = 1)
        => /\ ret.c.modulus = key.p1 * key.p2 * key.p3 * key.p4 * key.p5
           /\ ret.c.res \in 0..(ret.c.modulus - 1)
           /\ IsImage(ret.c.res % key.p4, args.m, key.p4)

C7_Witness ==
    /\ op = "encrypt"
    /\ GCD(Modulus(key), args.m.denom) = 1
    /\ args.m.denom > 1 /\ args.m.num > 0
    /\ args.delta > 0 /\ args.s1 > 0 /\ args.s2 > 0 /\ args.s3 > 0
    /\ ret.c.res < args.delta * key.p4
    /\ IsImage(ret.c.res % key.p4, args.m, key.p4)

\* C8 as stated: for a plaintext num/denom with denom coprime to g, the
\* residue of the ciphertext mod p1 is the image of the plaintext at p1.
C8_CiphertextModP1AsStated ==
    (op = "encrypt" /\ GCD(Modulus(key), args.m.denom) = 1)
        => IsImage(ret.c.res % key.p1, args.m, key.p1)

\* C8 amended: for a plaintext num/denom with denom coprime to g, the residue
\* of the ciphertext mod p1 is the image of the plaintext at p1 plus
\* delta*p4, mod p1.
C8_CiphertextModP1 ==
    (op = "encrypt" /\ GCD(Modulus(key), args.m.denom) = 1)
        => IsImage((ret.c.res - args.delta * key.p4) % key.p1, args.m, key.p1)

C8_Witness ==
    /\ op = "encrypt"
    /\ GCD(Modulus(key), args.m.denom) = 1
    /\ args.m.denom > 1 /\ args.m.num > 0
    /\ (args.delta * key.p4) % key.p1 # 0
    /\ ~IsImage(ret.c.res % key.p1, args.m, key.p1)
    /\ IsImage((ret.c.res - args.delta * key.p4) % key.p1, args.m, key.p1)

\* C9: a + b and a * b return a Hensel code exactly when the moduli are
\* equal, and panic otherwise; with equal modulus g the result has modulus g
\* and its residue is the value in [0, g) congruent to the sum, respectively
\* the product, of the residues.
C9_AddMul ==
    op \in {"add", "mul"}
        => /\ IsPanic(ret) <=> args.a.modulus # args.b.modulus
           /\ args.a.modulus = args.b.modulus
                => /\ ret.modulus = args.a.modulus
                   /\ ret.res \in 0..(ret.modulus - 1)
                   /\ op = "add" =>
                        \E q \in 0..1 : ret.res + q * ret.modulus = args.a.res + args.b.res
                   /\ op = "mul" =>
                        \E q \in 0..ret.modulus : ret.res + q * ret.modulus = args.a.res * args.b.res

C9_Witness ==
    /\ op = "add"
    /\ args.a.modulus = args.b.modulus
    /\ args.a.res + args.b.res > args.a.modulus
    /\ ret.res = args.a.res + args.b.res - args.a.modulus

\* C10: in encrypt, the code built at modulus p1*p2*p3 from the rational
\* hc_noise.residue / p1 has the residue (hc_noise.residue / p1) mod p2*p3:
\* the division by p1 is carried out.
C10_NoiseQuotient ==
    op = "encrypt"
        => /\ ret.hc_noise.res % key.p1 = 0
           /\ ret.hc_noise_1.res = (ret.hc_noise.res \div key.p1) % (key.p2 * key.p3)

====
